---- MODULE Spec2Model ----
(***************************************************************************)
(* A model of book_graph.py: tag resolution (get_book_data_from_isbn),     *)
(* related-work search (find_books_by_subject) and the assembly of the     *)
(* book/theme graph (build_similarity_graph).                              *)
(*                                                                         *)
(* Python str values are TLA+ strings; lower(), strip(), the substring     *)
(* test `in`, join and the f-string are computed character by character.   *)
(* The catalog (Open Library) and the embedding model are the environment: *)
(* each response and each score is an input.                               *)
(***************************************************************************)
EXTENDS Integers, Sequences, FiniteSets, TLC

VARIABLES
    pc,            \* position of the run that the specification is about
    raw_subjects,  \* work_data["subjects"] of the work record
    scores,        \* outcome of the embedding call for each subject string
    tag_result,    \* what get_book_data_from_isbn returned
    find_args,     \* arguments of a find_books_by_subject call
    responses,     \* the catalog's answers to the two search queries
    find_result,   \* what find_books_by_subject returned
    run            \* state of a build_similarity_graph(isbn) run

vars == <<pc, raw_subjects, scores, tag_result, find_args, responses, find_result, run>>

---------------------------------------------------------------------------
(* Python strings *)

UpperChars == "ABCDEFGHIJKLMNOPQRSTUVWXYZ"

LowerChars == "abcdefghijklmnopqrstuvwxyz"

\* str.lower() of one character, as a table
LowerMap ==
    [c \in {SubSeq(UpperChars, i, i) : i \in 1..Len(UpperChars)} |->
        LET i == CHOOSE j \in 1..Len(UpperChars) : SubSeq(UpperChars, j, j) = c
        IN  SubSeq(LowerChars, i, i)]

LowerChar(c) == IF c \in DOMAIN LowerMap THEN LowerMap[c] ELSE c

RECURSIVE LowerOf(_)
\* str.lower(), character by character
LowerOf(s) ==
    IF Len(s) <= 1 THEN LowerChar(s)
    ELSE LET half == Len(s) \div 2
         IN  LowerOf(SubSeq(s, 1, half)) \o LowerOf(SubSeq(s, half + 1, Len(s)))

\* subject strings a work record may carry: a blocklisted one, region
\* subjects (one twice, in another case and padded), plain themes
Subjects ==
    {"Fiction", "Love stories", "Japan", " JAPAN", "Psychological fiction",
     "England", "Grief", "War"}

\* subject strings of the runs of build_similarity_graph: a region subject
\* that is also a book title, a plain theme, and one that reads like a label
PipeSubjects == {"Japan", "Grief", "Botchan by Soseki"}

\* titles of catalog records (None: the record has no title)
Titles == {"Kokoro", " KOKORO ", "Botchan", "botchan", "Japan", "Grief", "   "}

\* str.lower() of the strings the specifications draw, computed once
LowerTable == [s \in Subjects \cup PipeSubjects \cup Titles |-> LowerOf(s)]

\* str.lower()
Lower(s) == IF s \in DOMAIN LowerTable THEN LowerTable[s] ELSE LowerOf(s)

RECURSIVE LStrip(_)
LStrip(s) == IF s # "" /\ Head(s) = " " THEN LStrip(Tail(s)) ELSE s

RECURSIVE RStrip(_)
RStrip(s) ==
    IF s # "" /\ SubSeq(s, Len(s), Len(s)) = " "
    THEN RStrip(SubSeq(s, 1, Len(s) - 1))
    ELSE s

\* str.strip()
Strip(s) == RStrip(LStrip(s))

\* the Python test `sub in s` on two strings
Contains(sub, s) ==
    \E i \in 1..(Len(s) - Len(sub) + 1) : SubSeq(s, i, i + Len(sub) - 1) = sub

RECURSIVE Join(_, _)
\* sep.join(parts)
Join(parts, sep) ==
    IF parts = <<>> THEN ""
    ELSE IF Len(parts) = 1 THEN parts[1]
    ELSE parts[1] \o sep \o Join(Tail(parts), sep)

\* Python's None, a value that is no str
None == "<None>"

\* `not x` for a str-or-None value
Falsy(x) == x = None \/ x = ""

Range(s) == {s[i] : i \in 1..Len(s)}

Min(a, b) == IF a <= b THEN a ELSE b

RECURSIVE InjectiveSeqs(_, _)
\* the sequences over S of length n in which no element repeats
InjectiveSeqs(S, n) ==
    IF n = 0 THEN {<<>>}
    ELSE UNION {{Append(q, x) : x \in S \ Range(q)} : q \in InjectiveSeqs(S, n - 1)}

\* all sequences over S of length at most n
SeqsUpTo(S, n) == UNION {[1..k -> S] : k \in 0..n}

---------------------------------------------------------------------------
(* Module-level tables and constants of book_graph.py *)

blocklist ==
    {"fiction", "literature", "novel", "story", "books and reading",
     "english fiction", "american fiction"}

country_keywords ==
    <<"Japan", "Canada", "United States", "England", "France", "Germany",
      "China", "India", "Mexico", "Italy", "Russia", "Korea">>

\* 0.50, in hundredths
similarity_threshold == 50

\* the cap `len(final_tags) >= 5` and the slice final_tags[:5]
MaxTags == 5

\* the default max_books=3 that build_similarity_graph relies on
DefaultMaxBooks == 3

---------------------------------------------------------------------------
(* get_book_data_from_isbn: tag resolution (lines 92-159) *)

\* tag.lower().strip()
NormKey(t) == Strip(Lower(t))

\* line 96: any(country.lower() in tag_lower for country in country_keywords)
HasKeyword(tag, keywords) ==
    \E k \in 1..Len(keywords) : Contains(Lower(keywords[k]), NormKey(tag))

\* line 96 for the keyword list of build_similarity_graph, computed once for
\* the strings the specifications draw
CountryTable == [t \in DOMAIN LowerTable |-> HasKeyword(t, country_keywords)]

\* line 96 without country.lower(): the keyword is matched in its own case
IsCountryTagCaseSensitive(tag, keywords) ==
    \E k \in 1..Len(keywords) : Contains(keywords[k], NormKey(tag))

\* line 96
IsCountryTag(tag, keywords) ==
    IF keywords = country_keywords /\ tag \in DOMAIN CountryTable
    THEN CountryTable[tag]
    ELSE HasKeyword(tag, keywords)

\* lines 93-97: subjects that contain a country keyword
CountryTags(raw, keywords) ==
    SelectSeq(raw, LAMBDA tag : IsCountryTag(tag, keywords))

\* an outcome of lines 111-113: encode/cos_sim raised, or max_sim in hundredths
Raises == [raises |-> TRUE]

Sim(hundredths) == [raises |-> FALSE, sim |-> hundredths]

\* lines 110-116: the similarity of a subject to the theme bank; a failed
\* encoding counts as 0.0
MaxSim(sc, tag) == IF sc[tag].raises THEN 0 ELSE sc[tag].sim

\* line 118
PassesThreshold(max_sim) == max_sim >= similarity_threshold

\* lines 101-119: the semantic filter
FilteredSubjects(raw, sc) ==
    SelectSeq(raw, LAMBDA tag :
        /\ NormKey(tag) \notin blocklist
        /\ PassesThreshold(MaxSim(sc, tag)))

\* lines 130, 141, 152: the cap test that ends a loop
CapReached(final_tags) == Len(final_tags) >= MaxTags

RECURSIVE MergeLoopNoDedup(_, _, _)
\* lines 125-131 without the test `tl not in seen`
MergeLoopNoDedup(items, final_tags, seen) ==
    IF items = <<>> THEN [final_tags |-> final_tags, seen |-> seen]
    ELSE LET ft == Append(final_tags, Head(items))
             sn == seen \cup {NormKey(Head(items))}
         IN  IF CapReached(ft)
             THEN [final_tags |-> ft, seen |-> sn]
             ELSE MergeLoopNoDedup(Tail(items), ft, sn)

RECURSIVE MergeLoop(_, _, _)
\* lines 125-131: the loop over filtered_subjects + country_tags
MergeLoop(items, final_tags, seen) ==
    IF items = <<>> THEN [final_tags |-> final_tags, seen |-> seen]
    ELSE LET t  == Head(items)
             tl == NormKey(t)
             ft == IF tl \notin seen THEN Append(final_tags, t) ELSE final_tags
             sn == seen \cup {tl}
         IN  IF CapReached(ft)
             THEN [final_tags |-> ft, seen |-> sn]
             ELSE MergeLoop(Tail(items), ft, sn)

RECURSIVE BackfillLoop(_, _, _, _)
\* lines 135-142 (skip_blocked = TRUE) and lines 146-153 (skip_blocked = FALSE)
BackfillLoop(items, final_tags, seen, skip_blocked) ==
    IF items = <<>> THEN [final_tags |-> final_tags, seen |-> seen]
    ELSE LET t  == Head(items)
             tl == NormKey(t)
         IN  IF tl \in seen \/ (skip_blocked /\ tl \in blocklist)
             THEN BackfillLoop(Tail(items), final_tags, seen, skip_blocked)
             ELSE LET ft == Append(final_tags, t)
                      sn == seen \cup {tl}
                  IN  IF CapReached(ft)
                      THEN [final_tags |-> ft, seen |-> sn]
                      ELSE BackfillLoop(Tail(items), ft, sn, skip_blocked)

\* lines 134 and 145: a backfill tier runs only below the cap
Backfill(raw, acc, skip_blocked) ==
    IF Len(acc.final_tags) < MaxTags
    THEN BackfillLoop(raw, acc.final_tags, acc.seen, skip_blocked)
    ELSE acc

\* lines 92-142 and 159: the last-resort tier (lines 144-153) left out
ResolveTagsNoLastResort(raw, keywords, sc) ==
    LET country_tags      == CountryTags(raw, keywords)
        filtered_subjects == FilteredSubjects(raw, sc)
        merged == MergeLoop(filtered_subjects \o country_tags, <<>>, {})
        tier2  == Backfill(raw, merged, TRUE)
    IN  SubSeq(tier2.final_tags, 1, Min(MaxTags, Len(tier2.final_tags)))

\* lines 92-153 and the slice of line 159
ResolveTags(raw, keywords, sc) ==
    LET country_tags      == CountryTags(raw, keywords)
        filtered_subjects == FilteredSubjects(raw, sc)
        merged == MergeLoop(filtered_subjects \o country_tags, <<>>, {})
        tier2  == Backfill(raw, merged, TRUE)
        tier3  == Backfill(raw, tier2, FALSE)
    IN  SubSeq(tier3.final_tags, 1, Min(MaxTags, Len(tier3.final_tags)))

\* lines 156-157: the fiction heuristic
IsFiction(raw) ==
    LET subject_str == Lower(Join(raw, " "))
    IN  Contains("fiction", subject_str) /\ ~Contains("nonfiction", subject_str)

\* dict.get(key, default): a JSON object is a function on the keys it carries
Get(obj, key, default) == IF key \in DOMAIN obj THEN obj[key] ELSE default

\* responses of the catalog to requests.get(...): the call raises (timeout,
\* transport error), answers with a status other than 200 (and a JSON body
\* without the keys the code reads), answers 200 with a body that is not
\* JSON, or answers 200 with a JSON body; `kind` is no key of the body
Exception == [kind |-> "exception"]

Non200 == [kind |-> "non200"]

BadJson == [kind |-> "badjson"]

IsbnOk(title, works) == [kind |-> "ok", title |-> title, works |-> works]

WorkOk(subjects) == [kind |-> "ok", subjects |-> subjects]

\* what get_book_data_from_isbn hands back; `raised` stands for an exception
\* that leaves the function, `events` lists its requests in order and
\* `work_fetched` records that line 89 was reached
BookData(title, final_tags, original_title_lower, is_fiction, events, fetched) ==
    [title |-> title, final_tags |-> final_tags,
     original_title_lower |-> original_title_lower, is_fiction |-> is_fiction,
     events |-> events, work_fetched |-> fetched, raised |-> FALSE]

\* r.json() / wr.json() (lines 69, 89) stand outside the try blocks
BookDataRaised(events) ==
    [title |-> None, final_tags |-> <<>>, original_title_lower |-> "",
     is_fiction |-> FALSE, events |-> events, work_fetched |-> FALSE,
     raised |-> TRUE]

\* lines 60-64 and 81-85 without the status tests of lines 65 and 86
FetchFailedStatusIgnored(resp) == resp.kind = "exception"

\* lines 60-67 and 81-87: a request that raised or did not answer 200
FetchFailed(resp) == resp.kind \in {"exception", "non200"}

\* lines 47-159
GetBookDataFromIsbn(isbn, keywords, isbn_resp, work_resp, sc) ==
    IF FetchFailed(isbn_resp)
    THEN BookData(None, <<>>, "", FALSE, <<"request">>, FALSE)
    ELSE IF isbn_resp.kind = "badjson" THEN BookDataRaised(<<"request">>)
    ELSE
    LET book_title == Get(isbn_resp, "title", None)
        title == Strip(IF Falsy(book_title)
                       THEN "Unknown Title (" \o isbn \o ")"
                       ELSE book_title)
        works == Get(isbn_resp, "works", <<>>)
    IN  IF works = <<>> \/ Falsy(works[1])
        THEN BookData(title, <<>>, Lower(title), FALSE, <<"request">>, FALSE)
        ELSE IF FetchFailed(work_resp)
        THEN BookData(title, <<>>, Lower(title), FALSE,
                      <<"request", "request">>, FALSE)
        ELSE IF work_resp.kind = "badjson"
        THEN BookDataRaised(<<"request", "request">>)
        ELSE LET raw == Get(work_resp, "subjects", <<>>)
             IN  BookData(title, ResolveTags(raw, keywords, sc), Lower(title),
                          IsFiction(raw), <<"request", "request">>, TRUE)

---------------------------------------------------------------------------
(* find_books_by_subject (lines 163-219) *)

\* the catalog's answer to a search: the records under "docs"
SearchOk(docs) == [kind |-> "ok", docs |-> docs]

\* line 184: (doc.get("title") or "").strip()
DocTitle(doc) ==
    LET t == Get(doc, "title", None) IN Strip(IF Falsy(t) THEN "" ELSE t)

\* line 188 without .lower()
TitleKeyNoLower(title) == title

\* line 188: tl = title.lower()
TitleKey(title) == Lower(title)

\* line 194: (doc.get("author_name") or ["Unknown"])[0]
DocAuthor(doc) ==
    LET a == Get(doc, "author_name", <<>>)
    IN  IF a = <<>> THEN "Unknown" ELSE a[1]

\* line 196
DocSubjectList(doc) ==
    IF "subject" \in DOMAIN doc THEN Lower(Join(doc["subject"], " ")) ELSE ""

\* lines 203-207: the soft fiction alignment; TRUE when the record is dropped
GenreMismatch(subject_list, is_fiction_input) ==
    /\ subject_list # ""
    /\ \/ /\ is_fiction_input
          /\ ~Contains("fiction", subject_list)
          /\ ~Contains("novel", subject_list)
       \/ /\ ~is_fiction_input
          /\ Contains("fiction", subject_list)

\* lines 185-207 without the test `tl in seen_titles`
SkipDocNoSeen(doc, seen_titles, original_title_lower, is_fiction_input) ==
    LET title == DocTitle(doc)
        tl    == TitleKey(title)
    IN  \/ title = ""
        \/ tl = original_title_lower
        \/ Get(doc, "edition_count", 0) < 1
        \/ GenreMismatch(DocSubjectList(doc), is_fiction_input)

\* lines 185-207: the record is skipped (`continue`)
SkipDoc(doc, seen_titles, original_title_lower, is_fiction_input) ==
    LET title == DocTitle(doc)
        tl    == TitleKey(title)
    IN  \/ title = ""
        \/ tl = original_title_lower
        \/ tl \in seen_titles
        \/ Get(doc, "edition_count", 0) < 1
        \/ GenreMismatch(DocSubjectList(doc), is_fiction_input)

\* line 209
Label(doc) == DocTitle(doc) \o " by " \o DocAuthor(doc)

\* lines 211 and 214
QuotaReached(results, max_books) == Len(results) >= max_books

\* the state of one call: results and seen_titles as in the code, `sources`
\* the record (and the query that returned it) behind each entry of results,
\* `events` the requests and pauses so far, `stop` the break of line 215
FindStart ==
    [results |-> <<>>, sources |-> <<>>, seen_titles |-> {}, events |-> <<>>,
     stop |-> FALSE]

RECURSIVE DocLoop(_, _, _, _, _, _)
\* lines 183-212: the loop over data.get("docs", [])
DocLoop(docs, fs, query, original_title_lower, is_fiction_input, max_books) ==
    IF docs = <<>> THEN fs
    ELSE LET doc == Head(docs)
         IN  IF SkipDoc(doc, fs.seen_titles, original_title_lower, is_fiction_input)
             THEN DocLoop(Tail(docs), fs, query, original_title_lower,
                          is_fiction_input, max_books)
             ELSE LET next ==
                          [fs EXCEPT
                             !.results = Append(@, Label(doc)),
                             !.sources = Append(@, [doc |-> doc, query |-> query]),
                             !.seen_titles = @ \cup {TitleKey(DocTitle(doc))}]
                  IN  IF QuotaReached(next.results, max_books) THEN next
                      ELSE DocLoop(Tail(docs), next, query, original_title_lower,
                                   is_fiction_input, max_books)

\* lines 175-181: the request raised, answered another status than 200, or
\* its body was no JSON (response.json() stands inside the try)
SearchFailed(resp) == resp.kind \in {"exception", "non200", "badjson"}

\* lines 175-217: one pass of `for query in urls`
SearchIteration(fs, query, resp, original_title_lower, is_fiction_input, max_books) ==
    LET asked == [fs EXCEPT !.events = Append(@, "request")]
    IN  IF SearchFailed(resp) THEN asked
        ELSE LET after == DocLoop(Get(resp, "docs", <<>>), asked, query,
                                  original_title_lower, is_fiction_input,
                                  max_books)
             IN  IF QuotaReached(after.results, max_books)
                 THEN [after EXCEPT !.stop = TRUE]
                 ELSE [after EXCEPT !.events = Append(@, "sleep")]

\* line 219: results[:max_books]
Truncate(q, n) == SubSeq(q, 1, Min(n, Len(q)))

\* lines 163-219; resps[k] is what the catalog answers to urls[k] if asked
FindBooksBySubject(original_title_lower, is_fiction_input, max_books, resps) ==
    LET first  == SearchIteration(FindStart, 1, resps[1], original_title_lower,
                                  is_fiction_input, max_books)
        second == IF first.stop THEN first
                  ELSE SearchIteration(first, 2, resps[2], original_title_lower,
                                       is_fiction_input, max_books)
    IN  [results |-> Truncate(second.results, max_books),
         sources |-> Truncate(second.sources, max_books),
         events  |-> second.events]

---------------------------------------------------------------------------
(* Inputs of the tag-resolution specification *)

\* longest subject list drawn (no string twice)
MaxSubjects == 6

\* longest subject list drawn in which a string may repeat
MaxRepeating == 3

\* what the embedding call yields for a subject: an exception, or a
\* similarity in hundredths just below (49) or at (50) the threshold;
\* the scorer drawn: the two themes of the spec's scenario pass, "Japan" and
\* "England" fall just short, encoding "Grief" fails
ScoreTables ==
    {[t \in Subjects |->
        CASE t \in {"Japan", "England"} -> Sim(49)
          [] t = "Grief" -> Raises
          [] OTHER -> Sim(50)]}

TheIsbn == "9780143124870"

InitTags ==
    /\ pc = "start"
    /\ \/ \E n \in 0..MaxSubjects : raw_subjects \in InjectiveSeqs(Subjects, n)
       \/ \E n \in 0..MaxRepeating : raw_subjects \in [1..n -> Subjects]
    /\ scores \in ScoreTables
    /\ tag_result = <<>>
    /\ find_args = <<>>
    /\ responses = <<>>
    /\ find_result = <<>>
    /\ run = <<>>

\* one call get_book_data_from_isbn(isbn, country_keywords)
CallGetBookData ==
    /\ pc = "start"
    /\ tag_result' = GetBookDataFromIsbn(TheIsbn, country_keywords,
                         IsbnOk("Kokoro", <<"/works/OL1W">>),
                         WorkOk(raw_subjects), scores)
    /\ pc' = "done"
    /\ UNCHANGED <<raw_subjects, scores, find_args, responses, find_result, run>>

NextTags == CallGetBookData

SpecTags == InitTags /\ [][NextTags]_vars

---------------------------------------------------------------------------
(* Inputs of the related-work specification *)

\* most records in one search answer
MaxDocs == 2

\* largest max_books drawn
MaxBooks == 2

\* catalog records: the source book itself (in another case, padded), a
\* novel, a record without editions, a non-fiction record, a bare record
FindDocs ==
    {[title |-> " KOKORO ", author_name |-> <<"Natsume Soseki">>,
      edition_count |-> 5, subject |-> <<"Fiction">>],
     [title |-> "Botchan", author_name |-> <<"Natsume Soseki">>,
      edition_count |-> 3, subject |-> <<"Japanese novel">>],
     [title |-> "botchan", edition_count |-> 1],
     [title |-> "Japan", author_name |-> <<>>, edition_count |-> 2,
      subject |-> <<"History">>],
     [title |-> "Grief", author_name |-> <<"Anon">>, edition_count |-> 0]}

SearchResponses(docs, n) ==
    {Exception, Non200, BadJson} \cup {SearchOk(d) : d \in SeqsUpTo(docs, n)}

InitFind ==
    /\ pc = "start"
    /\ find_args \in [original_title_lower : {"kokoro", "botchan"},
                      is_fiction_input : BOOLEAN,
                      max_books : 0..MaxBooks]
    /\ responses = <<>>
    /\ find_result = <<>>
    /\ raw_subjects = <<>>
    /\ scores = <<>>
    /\ tag_result = <<>>
    /\ run = <<>>

\* one call find_books_by_subject(subject, original_title_lower,
\* is_fiction_input, max_books) against a catalog that answers r1 and r2
CallFindBooks ==
    /\ pc = "start"
    /\ \E r1, r2 \in SearchResponses(FindDocs, MaxDocs) :
        /\ responses' = <<r1, r2>>
        /\ find_result' = FindBooksBySubject(find_args.original_title_lower,
                              find_args.is_fiction_input, find_args.max_books,
                              <<r1, r2>>)
    /\ pc' = "done"
    /\ UNCHANGED <<raw_subjects, scores, tag_result, find_args, run>>

NextFind == CallFindBooks

SpecFind == InitFind /\ [][NextFind]_vars

---------------------------------------------------------------------------
(* build_similarity_graph (lines 224-253) *)

\* nx.Graph(): `nodes` maps each node to its "type" attribute, `edges` holds
\* the undirected edges as sets of endpoints (one endpoint: a self-loop)
EmptyGraph == [nodes |-> <<>>, edges |-> {}]

\* G.add_node(n, type=kind): a node that exists gets its attribute overwritten
AddNode(G, n, kind) ==
    [G EXCEPT !.nodes = [x \in DOMAIN G.nodes \cup {n} |->
                            IF x = n THEN kind ELSE G.nodes[x]]]

\* G.add_edge(u, v): endpoints that are no nodes yet are added without a type
AddEdge(G, u, v) ==
    [nodes |-> [x \in DOMAIN G.nodes \cup {u, v} |->
                   IF x \in DOMAIN G.nodes THEN G.nodes[x] ELSE None],
     edges |-> G.edges \cup {{u, v}}]

RECURSIVE AddTags(_, _, _)
\* lines 236-238
AddTags(G, main_title, tags) ==
    IF tags = <<>> THEN G
    ELSE AddTags(AddEdge(AddNode(G, Head(tags), "theme"), main_title, Head(tags)),
                 main_title, Tail(tags))

\* lines 233-238
InitialGraph(main_title, main_tags) ==
    AddTags(AddNode(EmptyGraph, main_title, "book"), main_title, main_tags)

RECURSIVE AddBooks(_, _, _)
\* lines 247-251; acc carries G and seen_books
AddBooks(acc, tag, related_books) ==
    IF related_books = <<>> THEN acc
    ELSE LET book == Head(related_books)
         IN  IF book \notin acc.seen_books
             THEN AddBooks([G |-> AddEdge(AddNode(acc.G, book, "book"), book, tag),
                            seen_books |-> acc.seen_books \cup {book}],
                           tag, Tail(related_books))
             ELSE AddBooks(acc, tag, Tail(related_books))

RECURSIVE Pace(_, _)
\* the order of requests and pauses: `last` is the latest event, `unpaced`
\* counts the requests issued right after another request
Pace(p, events) ==
    IF events = <<>> THEN p
    ELSE Pace([last |-> Head(events),
               unpaced |-> IF Head(events) = "request" /\ p.last = "request"
                           THEN Min(p.unpaced + 1, 1) ELSE p.unpaced],
              Tail(events))

---------------------------------------------------------------------------
(* Inputs of the runs of build_similarity_graph *)

\* longest subject list of a run
MaxPipeSubjects == 2

\* most records in one search answer of a run
MaxPipeDocs == 1

\* titles of the edition record (None: the record carries no title)
PipeTitles == {None, " Kokoro", "Japan", "   "}

\* the "works" list of the edition record
PipeWorks == {<<>>, <<None>>, <<"/works/OL1W">>}

IsbnResponses ==
    {Exception, Non200, BadJson} \cup
    {IsbnOk(t, w) : t \in PipeTitles, w \in PipeWorks}

WorkResponses ==
    {Exception, Non200, BadJson} \cup
    {WorkOk(raw) : raw \in SeqsUpTo(PipeSubjects, MaxPipeSubjects)}

\* two scorers: every encoding fails, every subject scores 0.50
PipeScoreTables == {[t \in PipeSubjects |-> o] : o \in {Raises, Sim(50)}}

\* catalog records of a run: a novel whose label reads like a subject, and
\* the source book itself
PipeDocs ==
    {[title |-> "Botchan", author_name |-> <<"Soseki">>, edition_count |-> 1],
     [title |-> " KOKORO ", edition_count |-> 4]}

InitPipe ==
    /\ pc = "start"
    /\ raw_subjects = <<>>
    /\ scores = <<>>
    /\ tag_result = <<>>
    /\ find_args = <<>>
    /\ responses = <<>>
    /\ find_result = <<>>
    /\ run = <<>>

\* lines 229-241: the call of get_book_data_from_isbn, the early return, the
\* root node and the theme nodes.  Kept for the record: how the two fetches
\* ended (isbn_kind, work_asked, work_kind), the title the edition record
\* carried, the books of each finished tag (related), the passes of the
\* current tag whose request raised or answered another status than 200
\* (failed), whether any search of the run did (any_failed), and the results
\* the latest pass started with (before)
FetchBookData ==
    /\ pc = "start"
    /\ \E ir \in IsbnResponses, wr \in WorkResponses, sc \in PipeScoreTables :
        LET bd == GetBookDataFromIsbn(TheIsbn, country_keywords, ir, wr, sc)
            paced == Pace([last |-> "none", unpaced |-> 0], bd.events)
            base == [main_title |-> bd.title, main_tags |-> bd.final_tags,
                     original_title_lower |-> bd.original_title_lower,
                     is_fiction |-> bd.is_fiction,
                     G |-> EmptyGraph, seen_books |-> {}, i |-> 1,
                     fs |-> FindStart, q |-> 1, returned |-> "nothing",
                     pacing |-> paced,
                     isbn_kind |-> ir.kind,
                     isbn_title |-> Get(ir, "title", None),
                     work_asked |-> Len(bd.events) = 2,
                     work_kind |-> IF Len(bd.events) = 2 THEN wr.kind ELSE "none",
                     related |-> <<>>, failed |-> {}, any_failed |-> FALSE,
                     before |-> <<>>]
        IN  /\ tag_result' = bd
            /\ IF bd.raised
               THEN /\ pc' = "aborted"
                    /\ run' = base
               ELSE IF Falsy(bd.title)
               THEN /\ pc' = "done"
                    /\ run' = [base EXCEPT !.returned = "None"]
               ELSE /\ pc' = "loop"
                    /\ run' = [base EXCEPT
                                 !.G = InitialGraph(bd.title, bd.final_tags),
                                 !.seen_books = {bd.title}]
    /\ UNCHANGED <<raw_subjects, scores, find_args, responses, find_result>>

\* line 244, one pass of the loop of find_books_by_subject (lines 175-217)
\* for the tag main_tags[i]
SearchQuery ==
    /\ pc = "loop"
    /\ run.i <= Len(run.main_tags)
    /\ ~run.fs.stop
    /\ run.q <= 2
    /\ \E resp \in SearchResponses(PipeDocs, MaxPipeDocs) :
        LET fs == SearchIteration([run.fs EXCEPT !.events = <<>>], run.q, resp,
                                  run.original_title_lower, run.is_fiction,
                                  DefaultMaxBooks)
            no_answer == resp.kind \in {"exception", "non200"}
        IN  run' = [run EXCEPT !.fs = fs, !.q = @ + 1,
                               !.before = run.fs.results,
                               !.failed = IF no_answer THEN @ \cup {run.q} ELSE @,
                               !.any_failed = @ \/ no_answer,
                               !.pacing = Pace(@, fs.events)]
    /\ UNCHANGED <<pc, raw_subjects, scores, tag_result, find_args, responses,
                   find_result>>

\* lines 219 and 245-251: find_books_by_subject returns, the pause, and the
\* books of the tag enter the graph
FinishTag ==
    /\ pc = "loop"
    /\ run.i <= Len(run.main_tags)
    /\ run.fs.stop \/ run.q > 2
    /\ LET tag == run.main_tags[run.i]
           related_books == Truncate(run.fs.results, DefaultMaxBooks)
           acc == AddBooks([G |-> run.G, seen_books |-> run.seen_books], tag,
                           related_books)
       IN  run' = [run EXCEPT !.G = acc.G, !.seen_books = acc.seen_books,
                              !.i = @ + 1, !.fs = FindStart, !.q = 1,
                              !.before = <<>>, !.failed = {},
                              !.related = Append(@, related_books),
                              !.pacing = Pace(@, <<"sleep">>)]
    /\ UNCHANGED <<pc, raw_subjects, scores, tag_result, find_args, responses,
                   find_result>>

\* line 253
ReturnGraph ==
    /\ pc = "loop"
    /\ run.i > Len(run.main_tags)
    /\ pc' = "done"
    /\ run' = [run EXCEPT !.returned = "graph"]
    /\ UNCHANGED <<raw_subjects, scores, tag_result, find_args, responses, find_result>>

NextPipe == FetchBookData \/ SearchQuery \/ FinishTag \/ ReturnGraph

SpecPipe == InitPipe /\ [][NextPipe]_vars

---------------------------------------------------------------------------
(* Properties of the tag list (SpecTags) *)

\* the subject strings, lower-cased and trimmed
TagKey == [t \in Subjects |-> Strip(LowerOf(t))]

\* two subjects are equal after lower-casing and trimming
SameTag(a, b) == TagKey[a] = TagKey[b]

\* the subjects that contain a region/era keyword, case-insensitively
RegionSubjects ==
    {t \in Subjects :
        \E k \in 1..Len(country_keywords) :
            Contains(LowerOf(country_keywords[k]), LowerOf(t))}

RegionSubject(t) == t \in RegionSubjects

\* the subject is not blocklisted and scored at or above 0.50
SemanticallyAccepted(t) ==
    /\ TagKey[t] \notin blocklist
    /\ ~scores[t].raises
    /\ scores[t].sim >= 50

KeysOf(S) == {TagKey[t] : t \in S}

\* C1: the returned tag list has at most 5 entries and no two of them are
\* equal after lower-casing and trimming.
C1_TagsBoundedAndDistinct ==
    pc = "done" =>
        LET ft == tag_result.final_tags
        IN  /\ Len(ft) <= 5
            /\ \A i, j \in 1..Len(ft) : i < j => ~SameTag(ft[i], ft[j])

\* the cap cut off a list of more than five different subjects, one of which
\* occurs twice in filtered_subjects + country_tags
C1_Witness ==
    /\ pc = "done"
    /\ Cardinality(KeysOf(Range(raw_subjects))) > 5
    /\ Len(tag_result.final_tags) = 5
    /\ \E i \in 1..Len(raw_subjects) :
        RegionSubject(raw_subjects[i]) /\ SemanticallyAccepted(raw_subjects[i])

\* C2: with the work record fetched, the tag list is empty exactly when the
\* raw subject list is empty.
C2_EmptyIffNoSubjects ==
    (pc = "done" /\ tag_result.work_fetched) =>
        (tag_result.final_tags = <<>> <=> raw_subjects = <<>>)

\* every subject is blocklisted, and the last tier still yields a tag
C2_Witness ==
    /\ pc = "done"
    /\ tag_result.work_fetched
    /\ raw_subjects # <<>>
    /\ \A i \in 1..Len(raw_subjects) : TagKey[raw_subjects[i]] \in blocklist
    /\ tag_result.final_tags # <<>>

\* C3: for the subjects "Fiction", "Love stories", "Japan", "Psychological
\* fiction", with "Love stories" and "Psychological fiction" scoring at or
\* above 0.50, the tag list includes "Japan" and excludes "Fiction".
C3_ScenarioExcludesFiction ==
    (/\ pc = "done"
     /\ raw_subjects = <<"Fiction", "Love stories", "Japan", "Psychological fiction">>
     /\ SemanticallyAccepted("Love stories")
     /\ SemanticallyAccepted("Psychological fiction"))
    => /\ "Japan" \in Range(tag_result.final_tags)
       /\ "Fiction" \notin Range(tag_result.final_tags)

SemanticKeys == KeysOf({t \in Range(raw_subjects) : SemanticallyAccepted(t)})

RegionKeys == KeysOf({t \in Range(raw_subjects) : RegionSubject(t)})

HasEqualTag(t) ==
    \E j \in 1..Len(tag_result.final_tags) : SameTag(tag_result.final_tags[j], t)

---------------------------------------------------------------------------
(* Properties of the related-work search (SpecFind) *)

\* the title of a catalog record, trimmed and lower-cased
RecordTitleKey(doc) ==
    LET t == IF "title" \in DOMAIN doc /\ doc["title"] # None THEN doc["title"] ELSE ""
    IN  LowerOf(Strip(t))

\* the records of a search answer
DocsOf(resp) == IF resp.kind = "ok" THEN Range(resp.docs) ELSE {}

\* C4: no returned label is built from a record whose title, trimmed and
\* lower-cased, equals original_title_lower.
C4_SourceTitleExcluded ==
    pc = "done" =>
        /\ Len(find_result.results) = Len(find_result.sources)
        /\ \A i \in 1..Len(find_result.results) :
            LET doc == find_result.sources[i].doc
            IN  /\ RecordTitleKey(doc) # find_args.original_title_lower
                /\ \E author \in {"Unknown"} \cup
                        (IF "author_name" \in DOMAIN doc
                         THEN Range(doc["author_name"]) ELSE {}) :
                     find_result.results[i] = Strip(doc["title"]) \o " by " \o author

\* a search answered with the source book's own record before another one,
\* and a label was returned
C4_Witness ==
    /\ pc = "done"
    /\ responses[1].kind = "ok"
    /\ Len(responses[1].docs) >= 2
    /\ RecordTitleKey(responses[1].docs[1]) = find_args.original_title_lower
    /\ find_result.results # <<>>

\* C5: at most max_books labels are returned, no two of them from records
\* with the same case-insensitive title, and a label comes from the second
\* query only if the first query left fewer than max_books accepted.
C5_QuotaAndDistinctTitles ==
    pc = "done" =>
        LET src == find_result.sources
        IN  /\ Len(find_result.results) <= find_args.max_books
            /\ Len(find_result.results) = Len(src)
            /\ \A i, j \in 1..Len(src) :
                i < j => RecordTitleKey(src[i].doc) # RecordTitleKey(src[j].doc)
            /\ (\E i \in 1..Len(src) : src[i].query = 2) =>
                Cardinality({i \in 1..Len(src) : src[i].query = 1})
                    < find_args.max_books

\* both queries answered with the same title (in different case), the first
\* one's record was returned and a record of the second query followed it
C5_Witness ==
    /\ pc = "done"
    /\ \E d1 \in DocsOf(responses[1]), d2 \in DocsOf(responses[2]) :
        /\ d1 # d2
        /\ RecordTitleKey(d1) = RecordTitleKey(d2)
        /\ \E i \in 1..Len(find_result.sources) : find_result.sources[i].doc = d1
        /\ Get(d2, "edition_count", 0) >= 1
    /\ \E i \in 1..Len(find_result.sources) : find_result.sources[i].query = 2

---------------------------------------------------------------------------
(* Properties of the runs of build_similarity_graph (SpecPipe) *)

\* the kinds of the endpoints of an edge
EndpointKinds(e) == {run.G.nodes[n] : n \in e}

\* C6: in every graph returned, every edge joins one book node and one theme
\* node; there is no self-loop.
C6_EdgesJoinBookAndTheme ==
    (pc = "done" /\ run.returned = "graph") =>
        \A e \in run.G.edges :
            Cardinality(e) = 2 /\ EndpointKinds(e) = {"book", "theme"}

\* C9: a label returned for a tag that was already returned for an earlier
\* tag is connected to the later tag as well.
C9_SharedBookLinkedToEachTag ==
    (pc = "done" /\ run.returned = "graph") =>
        \A k \in 1..Len(run.related) :
            \A label \in Range(run.related[k]) :
                (\E earlier \in 1..(k - 1) : label \in Range(run.related[earlier]))
                    => {run.main_tags[k], label} \in run.G.edges

\* C10: no request is issued right after another request without a pause.
C10_PauseBetweenRequests == pc # "start" => run.pacing.unpaced = 0

\* a timeout or transport error (the call raises) or a status other than 200
CallFailed(kind) == kind \in {"exception", "non200"}

\* C8: (a) a failed canonical fetch ends the run with no graph; (b) a failed
\* work fetch yields the resolved title, no tags and, at the end, the graph
\* of the root node alone; (c) a failed search adds no books, a tag whose
\* two searches failed has no books, and the run goes on to return a graph
\* after every tag was processed; (d) only a 200 answer that is no JSON, to
\* the canonical or the work fetch, makes the run raise.
C8_FailuresDoNotAbort ==
    pc # "start" =>
    /\ CallFailed(run.isbn_kind) =>
            /\ pc = "done"
            /\ run.returned = "None"
            /\ run.G = EmptyGraph
    /\ (~CallFailed(run.isbn_kind) /\ run.work_asked /\ CallFailed(run.work_kind)
            /\ Strip(run.isbn_title) # "") =>
            /\ pc \in {"loop", "done"}
            /\ run.main_tags = <<>>
            /\ run.main_title = IF run.isbn_title = None
                                 THEN "Unknown Title (" \o TheIsbn \o ")"
                                 ELSE Strip(run.isbn_title)
            /\ DOMAIN run.G.nodes = {run.main_title}
            /\ run.G.edges = {}
            /\ pc = "done" => run.returned = "graph"
    /\ (pc = "loop" /\ (run.q - 1) \in run.failed) => run.fs.results = run.before
    /\ (pc = "loop" /\ run.failed = {1, 2}) => run.fs.results = <<>>
    /\ (pc = "done" /\ run.returned = "graph") =>
            /\ run.i = Len(run.main_tags) + 1
            /\ Len(run.related) = Len(run.main_tags)
    /\ pc = "aborted" =>
            \/ run.isbn_kind = "badjson"
            \/ run.work_asked /\ run.work_kind = "badjson"

\* the subject search of the first tag failed, a later search brought a book
\* for the second tag, and the graph was returned
C8_Witness ==
    /\ pc = "done"
    /\ run.returned = "graph"
    /\ run.any_failed
    /\ Len(run.main_tags) = 2
    /\ run.related[1] = <<>>
    /\ run.related[2] # <<>>

====
